---- MODULE Spec2Model ----
(***************************************************************************)
(* The SM83 core of rpdmga (src/src/lib.rs): the register file with its    *)
(* paired 16-bit views, the flag register, the work RAM behind the         *)
(* motherboard and the fetch operations of the CPU.                        *)
(*                                                                         *)
(* A call that panics (an index out of the work RAM, todo!()) ends the     *)
(* thread: the state is left as it was at the panic and no further call    *)
(* is made.                                                                *)
(***************************************************************************)
EXTENDS Integers, Sequences, FiniteSets, TLC

VARIABLES registers, work_ram, last, fetched

vars == <<registers, work_ram, last, fetched>>

(***************************************************************************)
(* Bounds of the model.                                                    *)
(***************************************************************************)
\* Bytes fetched through PC in one behaviour.
MaxFetches == 2

(***************************************************************************)
(* Program constants.                                                      *)
(***************************************************************************)
\* work_ram: [u8; 0x2000]
WorkRamSize == 8192
\* bitflags! Flags: u8
ZERO == 128
SUBTRACT == 64
HALF_CARRY == 32
CARRY == 16
\* u8 and u16 (type Address = u16)
U8Modulus == 256
U16Modulus == 65536

(***************************************************************************)
(* The inputs the calls are made with.                                     *)
(***************************************************************************)
Reg16 == {"AF", "BC", "DE", "HL"}
Reg8 == {"A", "F", "B", "C", "D", "E", "H", "L"}
\* 16-bit words: 0xABCD (both bytes distinct, bits set in the low nibble of
\* the low byte) and 0xFFFF (all ones); 0x0000 is what every pair starts with.
Words == {43981, 65535}
\* Addresses: the first two cells of the work RAM, the first address past
\* its last cell (0x2000), and the last address of the 16-bit space (0xFFFF).
Addresses == {0, 1, 8192, 65535}
\* Bytes: 0x00 (NOP, the initial content of every cell), the illegal opcode
\* 0xED and 0x34.
Bytes == {0, 237, 52}
\* The numbers of fetch_byte calls already made where InitAt starts: none,
\* and those that leave PC two cells, one cell and no cell before the end of
\* the work RAM.
StartFetches == {0, 8190, 8191, 8192}

(***************************************************************************)
(* Machine arithmetic.                                                     *)
(***************************************************************************)
RECURSIVE BitAnd(_, _)
BitAnd(x, y) ==
    IF x = 0 \/ y = 0 THEN 0
    ELSE (x % 2) * (y % 2) + 2 * BitAnd(x \div 2, y \div 2)

RECURSIVE BitOr(_, _)
BitOr(x, y) ==
    IF x = 0 THEN y
    ELSE IF y = 0 THEN x
    ELSE (IF (x % 2) + (y % 2) > 0 THEN 1 ELSE 0) + 2 * BitOr(x \div 2, y \div 2)

RECURSIVE Pow2(_)
Pow2(n) == IF n = 0 THEN 1 ELSE 2 * Pow2(n - 1)

\* x << n on u16
Shl16(x, n) == (x * Pow2(n)) % U16Modulus
\* x >> n on u16
Shr16(x, n) == x \div Pow2(n)
\* x as u8
AsU8(x) == x % U8Modulus
\* u16::wrapping_add
WrappingAdd16(x, y) == (x + y) % U16Modulus

(***************************************************************************)
(* Flags                                                                   *)
(***************************************************************************)
\* Flags::all().bits
FlagsAll == BitOr(BitOr(ZERO, SUBTRACT), BitOr(HALF_CARRY, CARRY))

\* from_bits_truncate that keeps every bit.
from_bits_keep(bits) == bits

\* Flags::from_bits_truncate: the bits that name no flag are dropped.
from_bits_truncate(bits) == BitAnd(bits, FlagsAll)

(***************************************************************************)
(* RegisterFile                                                            *)
(***************************************************************************)
\* #[derive(Default)]: every register zero, no flag set.
RegisterFileDefault ==
    [a |-> 0, f |-> 0, b |-> 0, c |-> 0, d |-> 0, e |-> 0, h |-> 0, l |-> 0,
     sp |-> 0, pc |-> 0]

\* read16 shifting the high half by a nibble.
read16_shift4(regs, reg) ==
    CASE reg = "AF" -> BitOr(Shl16(regs.a, 4), regs.f)
      [] reg = "BC" -> BitOr(Shl16(regs.b, 4), regs.c)
      [] reg = "DE" -> BitOr(Shl16(regs.d, 4), regs.e)
      [] reg = "HL" -> BitOr(Shl16(regs.h, 4), regs.l)

read16(regs, reg) ==
    CASE reg = "AF" -> BitOr(Shl16(regs.a, 8), regs.f)
      [] reg = "BC" -> BitOr(Shl16(regs.b, 8), regs.c)
      [] reg = "DE" -> BitOr(Shl16(regs.d, 8), regs.e)
      [] reg = "HL" -> BitOr(Shl16(regs.h, 8), regs.l)

\* write16 taking A from the low byte and F from the high byte.
write16_af_swapped(regs, reg, word) ==
    CASE reg = "AF" ->
            [regs EXCEPT !.a = AsU8(word),
                         !.f = from_bits_truncate(AsU8(Shr16(word, 8)))]
      [] reg = "BC" -> [regs EXCEPT !.b = AsU8(Shr16(word, 8)), !.c = AsU8(word)]
      [] reg = "DE" -> [regs EXCEPT !.d = AsU8(Shr16(word, 8)), !.e = AsU8(word)]
      [] reg = "HL" -> [regs EXCEPT !.h = AsU8(Shr16(word, 8)), !.l = AsU8(word)]

\* write16 without the shift for the high half of BC, DE and HL.
write16_low_only(regs, reg, word) ==
    CASE reg = "AF" ->
            [regs EXCEPT !.a = AsU8(Shr16(word, 8)),
                         !.f = from_bits_truncate(AsU8(word))]
      [] reg = "BC" -> [regs EXCEPT !.b = AsU8(word), !.c = AsU8(word)]
      [] reg = "DE" -> [regs EXCEPT !.d = AsU8(word), !.e = AsU8(word)]
      [] reg = "HL" -> [regs EXCEPT !.h = AsU8(word), !.l = AsU8(word)]

\* write16 whose DE arm stores the low byte in C.
write16_de_into_c(regs, reg, word) ==
    CASE reg = "AF" ->
            [regs EXCEPT !.a = AsU8(Shr16(word, 8)),
                         !.f = from_bits_truncate(AsU8(word))]
      [] reg = "BC" -> [regs EXCEPT !.b = AsU8(Shr16(word, 8)), !.c = AsU8(word)]
      [] reg = "DE" -> [regs EXCEPT !.d = AsU8(Shr16(word, 8)), !.c = AsU8(word)]
      [] reg = "HL" -> [regs EXCEPT !.h = AsU8(Shr16(word, 8)), !.l = AsU8(word)]

write16(regs, reg, word) ==
    CASE reg = "AF" ->
            [regs EXCEPT !.a = AsU8(Shr16(word, 8)),
                         !.f = from_bits_truncate(AsU8(word))]
      [] reg = "BC" -> [regs EXCEPT !.b = AsU8(Shr16(word, 8)), !.c = AsU8(word)]
      [] reg = "DE" -> [regs EXCEPT !.d = AsU8(Shr16(word, 8)), !.e = AsU8(word)]
      [] reg = "HL" -> [regs EXCEPT !.h = AsU8(Shr16(word, 8)), !.l = AsU8(word)]

\* In8<Reg8> for SM83: read
read_reg8(regs, source) ==
    CASE source = "A" -> regs.a
      [] source = "F" -> regs.f
      [] source = "B" -> regs.b
      [] source = "C" -> regs.c
      [] source = "D" -> regs.d
      [] source = "E" -> regs.e
      [] source = "H" -> regs.h
      [] source = "L" -> regs.l

(***************************************************************************)
(* MemoryMap.  work_ram holds the cells that are not zero; every other     *)
(* cell of the array is zero, as MemoryMap::default leaves it.             *)
(***************************************************************************)
MemoryMapDefault == [i \in {} |-> 0]

\* self.work_ram[address as usize]: the index check of the array
InBounds(address) == address < WorkRamSize

Cell(mem, address) == IF address \in DOMAIN mem THEN mem[address] ELSE 0

read_byte_at(mem, address) ==
    IF InBounds(address)
    THEN [outcome |-> "ok", byte |-> Cell(mem, address)]
    ELSE [outcome |-> "panic_index", byte |-> 0]

write_byte_at(mem, address, data) ==
    IF InBounds(address)
    THEN [outcome |-> "ok",
          mem |-> [i \in IF data = 0 THEN DOMAIN mem \ {address}
                                     ELSE DOMAIN mem \cup {address} |->
                     IF i = address THEN data ELSE mem[i]]]
    ELSE [outcome |-> "panic_index", mem |-> mem]

(***************************************************************************)
(* SM83                                                                    *)
(***************************************************************************)
\* todo!(): panics for every opcode
decode_execute(opcode) == "panic_todo"

fetch_decode_execute(regs, mem) ==
    LET address == regs.pc
        opcode == read_byte_at(mem, address)
    IN  IF opcode.outcome # "ok"
        THEN [outcome |-> opcode.outcome, regs |-> regs, opcode |-> 0]
        ELSE IF decode_execute(opcode.byte) # "ok"
        THEN [outcome |-> decode_execute(opcode.byte), regs |-> regs,
              opcode |-> opcode.byte]
        ELSE [outcome |-> "ok",
              regs |-> [regs EXCEPT !.pc = WrappingAdd16(address, 1)],
              opcode |-> opcode.byte]

fetch_byte(regs, mem) ==
    LET address == regs.pc
        byte == read_byte_at(mem, address)
    IN  IF byte.outcome # "ok"
        THEN [outcome |-> byte.outcome, regs |-> regs, byte |-> 0]
        ELSE [outcome |-> "ok",
              regs |-> [regs EXCEPT !.pc = WrappingAdd16(address, 1)],
              byte |-> byte.byte]

\* u16::from_le_bytes([low, high])
from_le_bytes(bytes) == bytes[1] + U8Modulus * bytes[2]

\* u16::from_be_bytes, and fetch_word assembling its word with it.
from_be_bytes(bytes) == bytes[2] + U8Modulus * bytes[1]

fetch_word_big_endian(regs, mem) ==
    LET low == fetch_byte(regs, mem)
        high == fetch_byte(low.regs, mem)
    IN  IF low.outcome # "ok"
        THEN [outcome |-> low.outcome, regs |-> low.regs, word |-> 0]
        ELSE IF high.outcome # "ok"
        THEN [outcome |-> high.outcome, regs |-> high.regs, word |-> 0]
        ELSE [outcome |-> "ok", regs |-> high.regs,
              word |-> from_be_bytes(<<low.byte, high.byte>>)]

fetch_word(regs, mem) ==
    LET low == fetch_byte(regs, mem)
        high == fetch_byte(low.regs, mem)
    IN  IF low.outcome # "ok"
        THEN [outcome |-> low.outcome, regs |-> low.regs, word |-> 0]
        ELSE IF high.outcome # "ok"
        THEN [outcome |-> high.outcome, regs |-> high.regs, word |-> 0]
        ELSE [outcome |-> "ok", regs |-> high.regs,
              word |-> from_le_bytes(<<low.byte, high.byte>>)]

\* In8<Immediate8> for SM83: read
read_immediate8(regs, mem) == fetch_byte(regs, mem)

(***************************************************************************)
(* The calls.  last records the call just made: its name and arguments,    *)
(* how it ended, what it returned and the state it was made in.            *)
(***************************************************************************)
Call(op, reg, arg, data, outcome, result) ==
    [op |-> op, reg |-> reg, arg |-> arg, data |-> data, outcome |-> outcome,
     result |-> result, registers |-> registers, work_ram |-> work_ram]

NoCall ==
    [op |-> "none", reg |-> "-", arg |-> 0, data |-> 0, outcome |-> "ok",
     result |-> 0, registers |-> RegisterFileDefault,
     work_ram |-> MemoryMapDefault]

Running == last.outcome = "ok"

\* Motherboard::default / SM83::default
Init ==
    /\ registers = RegisterFileDefault
    /\ work_ram = MemoryMapDefault
    /\ last = NoCall
    /\ fetched = 0

Do_write16(reg, word) ==
    /\ Running
    /\ registers' = write16(registers, reg, word)
    /\ last' = Call("write16", reg, word, 0, "ok", 0)
    /\ UNCHANGED <<work_ram, fetched>>

Do_read16(reg) ==
    /\ Running
    /\ last' = Call("read16", reg, 0, 0, "ok", read16(registers, reg))
    /\ UNCHANGED <<registers, work_ram, fetched>>

Do_read_reg8(source) ==
    /\ Running
    /\ last' = Call("read_reg8", source, 0, 0, "ok", read_reg8(registers, source))
    /\ UNCHANGED <<registers, work_ram, fetched>>

Do_read_byte_at(address) ==
    /\ Running
    /\ LET r == read_byte_at(work_ram, address)
       IN  last' = Call("read_byte_at", "-", address, 0, r.outcome, r.byte)
    /\ UNCHANGED <<registers, work_ram, fetched>>

Do_write_byte_at(address, data) ==
    /\ Running
    /\ LET r == write_byte_at(work_ram, address, data)
       IN  /\ work_ram' = r.mem
           /\ last' = Call("write_byte_at", "-", address, data, r.outcome, 0)
    /\ UNCHANGED <<registers, fetched>>

Do_fetch_byte ==
    /\ Running
    /\ fetched < MaxFetches
    /\ LET r == fetch_byte(registers, work_ram)
       IN  /\ registers' = r.regs
           /\ last' = Call("fetch_byte", "-", 0, 0, r.outcome, r.byte)
    /\ fetched' = fetched + 1
    /\ UNCHANGED work_ram

Do_read_immediate8 ==
    /\ Running
    /\ fetched < MaxFetches
    /\ LET r == read_immediate8(registers, work_ram)
       IN  /\ registers' = r.regs
           /\ last' = Call("read_immediate8", "-", 0, 0, r.outcome, r.byte)
    /\ fetched' = fetched + 1
    /\ UNCHANGED work_ram

Do_fetch_word ==
    /\ Running
    /\ fetched + 1 < MaxFetches
    /\ LET r == fetch_word(registers, work_ram)
       IN  /\ registers' = r.regs
           /\ last' = Call("fetch_word", "-", 0, 0, r.outcome, r.word)
    /\ fetched' = fetched + 2
    /\ UNCHANGED work_ram

Do_fetch_decode_execute ==
    /\ Running
    /\ LET r == fetch_decode_execute(registers, work_ram)
       IN  /\ registers' = r.regs
           /\ last' = Call("fetch_decode_execute", "-", r.opcode, 0, r.outcome, 0)
    /\ UNCHANGED <<work_ram, fetched>>

Next ==
    \/ \E reg \in Reg16, word \in Words : Do_write16(reg, word)
    \/ \E reg \in Reg16 : Do_read16(reg)
    \/ \E source \in Reg8 : Do_read_reg8(source)
    \/ \E address \in Addresses : Do_read_byte_at(address)
    \/ \E address \in Addresses, data \in Bytes : Do_write_byte_at(address, data)
    \/ Do_fetch_byte
    \/ Do_read_immediate8
    \/ Do_fetch_word
    \/ Do_fetch_decode_execute

Spec == Init /\ [][Next]_vars

(***************************************************************************)
(* The same calls, made after a run of fetch_byte calls on the fresh CPU:  *)
(* AfterFetches(n) is the register file that n fetch_byte calls leave  *)
(* FetchRun halves the run and has the first half evaluated (the test of   *)
(* half.pc) before the second starts, so that the evaluation stays         *)
(* shallow.                                                                *)
(***************************************************************************)
RECURSIVE FetchRun(_, _)
FetchRun(regs, n) ==
    IF n = 0 THEN regs
    ELSE IF n = 1 THEN fetch_byte(regs, MemoryMapDefault).regs
    ELSE LET half == FetchRun(regs, n \div 2)
         IN  IF half.pc \in Nat THEN FetchRun(half, n - (n \div 2)) ELSE half

AfterFetches(n) == FetchRun(RegisterFileDefault, n)

InitAt ==
    /\ \E n \in StartFetches : registers = AfterFetches(n)
    /\ work_ram = MemoryMapDefault
    /\ last = NoCall
    /\ fetched = 0

SpecAt == InitAt /\ [][Next]_vars

(***************************************************************************)
(* The halves of a pair, as read16 and write16 pair them.                  *)
(***************************************************************************)
High8(pair) ==
    CASE pair = "AF" -> "A" [] pair = "BC" -> "B"
      [] pair = "DE" -> "D" [] pair = "HL" -> "H"

Low8(pair) ==
    CASE pair = "AF" -> "F" [] pair = "BC" -> "C"
      [] pair = "DE" -> "E" [] pair = "HL" -> "L"

\* The registers outside a pair: the other six 8-bit cells, SP and PC.
Outside(pair) ==
    CASE pair = "AF" -> {"b", "c", "d", "e", "h", "l", "sp", "pc"}
      [] pair = "BC" -> {"a", "f", "d", "e", "h", "l", "sp", "pc"}
      [] pair = "DE" -> {"a", "f", "b", "c", "h", "l", "sp", "pc"}
      [] pair = "HL" -> {"a", "f", "b", "c", "d", "e", "sp", "pc"}

(***************************************************************************)
(* C1: from the fresh CPU, whatever write16 and fetch calls are made, the  *)
(* low nibble of F is 0, read as Reg8::F or as the low byte of             *)
(* read16(AF).                                                             *)
(***************************************************************************)
C1_FLowNibbleZero ==
    /\ BitAnd(read_reg8(registers, "F"), 15) = 0
    /\ BitAnd(AsU8(read16(registers, "AF")), 15) = 0

\* AF has been written with a word whose low nibble is set, after a fetch.
C1_Witness ==
    /\ last.op = "write16"
    /\ last.reg = "AF"
    /\ BitAnd(last.arg, 15) # 0
    /\ fetched > 0
    /\ registers.f # 0

(***************************************************************************)
(* C2: for BC, DE and HL and every word x, write16(reg, x) followed by     *)
(* read16(reg) returns x, whatever the registers held before.              *)
(***************************************************************************)
C2_RoundTrip ==
    (last.op = "write16" /\ last.reg \in {"BC", "DE", "HL"})
        => read16(registers, last.reg) = last.arg

\* DE, holding 0xFFFF, has been written with 0xABCD.
C2_Witness ==
    /\ last.op = "write16"
    /\ last.reg = "DE"
    /\ last.arg = 43981
    /\ read16(last.registers, "DE") = 65535

(***************************************************************************)
(* C3: write16(AF, x) sets A to the high byte of x and F to the low byte   *)
(* of x with its low nibble cleared, so read16(AF) is x AND 0xFFF0: each   *)
(* of the four flag bits of the low byte is kept, nothing else of it.      *)
(***************************************************************************)
C3_WriteAF ==
    (last.op = "write16" /\ last.reg = "AF") =>
        /\ registers.a = last.arg \div 256
        /\ registers.f = (last.arg % 256) - (last.arg % 16)
        /\ read16(registers, "AF") = last.arg - (last.arg % 16)
        /\ \A flag \in {ZERO, SUBTRACT, HALF_CARRY, CARRY} :
               BitAnd(registers.f, flag) = BitAnd(last.arg, flag)

\* AF has been written with 0xABCD: A = 0xAB, F = 0xC0.
C3_Witness ==
    /\ last.op = "write16"
    /\ last.reg = "AF"
    /\ last.arg = 43981
    /\ registers.a = 171
    /\ registers.f = 192

(***************************************************************************)
(* C4: a pair is a view over its two 8-bit cells: read16(pair) is always   *)
(* 256 * (the Reg8 read of the high half) + (the Reg8 read of the low      *)
(* half), also for the value a read16 call returned, and after             *)
(* write16(pair, x) the Reg8 reads of the halves are the high and low      *)
(* bytes of read16(pair).                                                  *)
(***************************************************************************)
C4_PairIsView ==
    /\ \A pair \in Reg16 :
           read16(registers, pair) =
               256 * read_reg8(registers, High8(pair))
                   + read_reg8(registers, Low8(pair))
    /\ last.op = "read16" =>
           last.result = 256 * read_reg8(registers, High8(last.reg))
                             + read_reg8(registers, Low8(last.reg))
    /\ last.op = "write16" =>
           /\ read_reg8(registers, High8(last.reg))
                  = read16(registers, last.reg) \div 256
           /\ read_reg8(registers, Low8(last.reg))
                  = read16(registers, last.reg) % 256

\* read16(BC) has returned 0xABCD while B = 0xAB and C = 0xCD.
C4_Witness ==
    /\ last.op = "read16"
    /\ last.reg = "BC"
    /\ last.result = 43981
    /\ read_reg8(registers, "B") = 171
    /\ read_reg8(registers, "C") = 205

(***************************************************************************)
(* C5: write16(pair, x) changes nothing but the two cells of the pair: the *)
(* six other 8-bit cells, SP, PC and the memory are as before; read16 and  *)
(* the Reg8 read change nothing at all.                                    *)
(***************************************************************************)
C5_Frame ==
    /\ last.op = "write16" =>
           /\ \A r \in Outside(last.reg) : registers[r] = last.registers[r]
           /\ work_ram = last.work_ram
    /\ last.op \in {"read16", "read_reg8"} =>
           /\ registers = last.registers
           /\ work_ram = last.work_ram

\* DE has been written while the other pairs, PC and the memory held
\* something.
C5_Witness ==
    /\ last.op = "write16"
    /\ last.reg = "DE"
    /\ read16(registers, "DE") # read16(last.registers, "DE")
    /\ registers.a # 0
    /\ registers.c # 0
    /\ registers.l # 0
    /\ registers.pc # 0
    /\ work_ram # MemoryMapDefault

(***************************************************************************)
(* C6: an immediate read fetches at the PC of entry and advances PC by the *)
(* width of the operand: fetch_byte and the Immediate8 read return the     *)
(* byte at the entry PC and leave PC = entry PC + 1 (mod 2^16), fetch_word *)
(* reads the bytes at entry PC and entry PC + 1 and leaves                 *)
(* PC = entry PC + 2 (mod 2^16); no other register and no memory cell      *)
(* changes.                                                                *)
(***************************************************************************)
C6_FetchAdvancesPC ==
    /\ last.op \in {"fetch_byte", "read_immediate8"} =>
           /\ last.outcome = "ok"
           /\ last.result = Cell(last.work_ram, last.registers.pc)
           /\ registers =
                  [last.registers EXCEPT !.pc = (last.registers.pc + 1) % 65536]
           /\ work_ram = last.work_ram
    /\ last.op = "fetch_word" =>
           /\ last.outcome = "ok"
           /\ last.result % 256 = Cell(last.work_ram, last.registers.pc)
           /\ last.result \div 256 =
                  Cell(last.work_ram, (last.registers.pc + 1) % 65536)
           /\ registers =
                  [last.registers EXCEPT !.pc = (last.registers.pc + 2) % 65536]
           /\ work_ram = last.work_ram

(***************************************************************************)
(* C8: a step on the illegal opcode 0xED ends in a failure that differs    *)
(* from how a step on the valid opcode 0x00 ends in the same state, and    *)
(* leaves every register and every memory cell as before.                  *)
(***************************************************************************)
C8_IllegalOpcodeDistinct ==
    (last.op = "fetch_decode_execute" /\ last.arg = 237) =>
        /\ last.outcome # "ok"
        /\ last.outcome #
               fetch_decode_execute(
                   last.registers,
                   write_byte_at(last.work_ram, last.registers.pc, 0).mem).outcome
        /\ registers = last.registers
        /\ work_ram = last.work_ram

(***************************************************************************)
(* C9: every 16-bit address is addressable: read_byte_at returns a byte    *)
(* and write_byte_at stores its byte at every address, so fetch_byte and   *)
(* fetch_word return at every PC.                                          *)
(***************************************************************************)
C9_EveryAddressAddressable ==
    /\ last.op \in {"read_byte_at", "write_byte_at", "fetch_byte", "fetch_word"}
           => last.outcome = "ok"
    /\ last.op = "write_byte_at" =>
           read_byte_at(work_ram, last.arg) = [outcome |-> "ok", byte |-> last.data]

(***************************************************************************)
(* C10: the word fetch_word returns is little-endian in fetch order: the   *)
(* byte at the entry PC is its low byte and the byte at entry PC + 1 its   *)
(* high byte; and fetch_word ends as two consecutive fetch_byte calls do:  *)
(* same final PC, and the same value once the two bytes are combined.      *)
(***************************************************************************)
\* What two consecutive fetch_byte calls make of a state, the second made
\* where the first has returned.
TwoFetches(regs, mem) ==
    LET first == fetch_byte(regs, mem)
        second == fetch_byte(first.regs, mem)
    IN  IF first.outcome # "ok"
        THEN [outcome |-> first.outcome, regs |-> first.regs, word |-> 0]
        ELSE [outcome |-> second.outcome, regs |-> second.regs,
              word |-> IF second.outcome = "ok"
                       THEN first.byte + 256 * second.byte ELSE 0]

C10_AfterFetchWord ==
    last.op = "fetch_word" =>
        /\ last.outcome = "ok" =>
               last.result =
                   Cell(last.work_ram, last.registers.pc)
                       + 256 * Cell(last.work_ram, (last.registers.pc + 1) % 65536)
        /\ [outcome |-> last.outcome, regs |-> registers, word |-> last.result]
               = TwoFetches(last.registers, last.work_ram)

\* Two fetch_byte calls in a row against fetch_word in the state of the first.
C10_AfterTwoFetchBytes ==
    (last.op = "fetch_byte" /\ last'.op = "fetch_byte") =>
        LET word == fetch_word(last.registers, last.work_ram)
        IN  /\ word.outcome = last'.outcome
            /\ word.regs = registers'
            /\ last'.outcome = "ok" =>
                   word.word = last.result + 256 * last'.result

\* C10: every fetch_word call returns the little-endian word of the two bytes
\* at the entry PC, in fetch order, and ends as two consecutive fetch_byte
\* calls do (same final PC, same combined value).
C10_FetchWordLittleEndian ==
    [](C10_AfterFetchWord) /\ [][C10_AfterTwoFetchBytes]_vars

\* fetch_word has returned 0x34ED from the cells 0xED, 0x34.
C10_Witness ==
    /\ last.op = "fetch_word"
    /\ last.outcome = "ok"
    /\ Cell(last.work_ram, last.registers.pc) = 237
    /\ Cell(last.work_ram, last.registers.pc + 1) = 52
    /\ last.result = 13549
    /\ registers.pc = last.registers.pc + 2

====
